---- MODULE Spec2Model ----
(***************************************************************************)
(* Digital-Twin-Project: the rule-based risk classifier of app.py          *)
(* (predict_wear_and_status), the synthetic wear series generator          *)
(* (generate_simulation_data) and the cached data generator of the         *)
(* dashboard page (generate_data).                                         *)
(*                                                                         *)
(* Numbers are fixed point:                                                *)
(*   slider pressure     tenths of a PSI          (32.2 PSI  = 322)        *)
(*   slider temperature  tenths of a degree C     (52.5 C    = 525)        *)
(*   mileage             km                                                *)
(*   running pressure of the generator  1/10000 PSI  (33.5 PSI = 335000)   *)
(*   running temperature of the generator 1/100 C    (55.0 C   = 5500)     *)
(***************************************************************************)
EXTENDS Integers, Sequences, FiniteSets, TLC

VARIABLES
    pc,             \* position of the script / of the function being run
    sim_pressure,   \* slider value, tenths of a PSI
    sim_mileage,    \* slider value, km
    sim_temp,       \* slider value, tenths of a degree C
    status,         \* (status_text, status_color, status_icon) or NoStatus
    business_metrics, \* the dict of calculate_business_metrics or NoMetrics
    rng,            \* hidden state of Python's module-level random generator
    steps,          \* iterations of the for-loop executed by the running call
    pressure_start, \* local of generate_simulation_data, 1/10000 PSI
    temp_start,     \* local of generate_simulation_data, 1/100 C
    mileage_start,  \* local of generate_simulation_data, km
    pressure_wear,  \* local: the pressure loss of the last iteration
    temp_change,    \* local: the temperature drift of the last iteration
    data,           \* local: the list of appended readings
    df_sim,         \* the frame the app page last obtained (line 171)
    sim_cache,      \* the st.cache_data entry of generate_simulation_data
    sim_runs,       \* executions of generate_simulation_data so far
    np_rng,         \* hidden state of NumPy's global generator
    df,             \* the frame the dashboard page last obtained (line 114)
    dash_cache,     \* the st.cache_data entry of generate_data
    dash_runs,      \* executions of generate_data so far
    strict_names,   \* the installed scikit-learn rejects unseen feature names
    model,          \* the classifier the dashboard page last obtained (line 115)
    accuracy,       \* its score on the test split, percent (line 115)
    model_cache,    \* the st.cache_resource entry of train_model
    sim_vibration,  \* dashboard slider value, tenths of a Hz
    input_data,     \* the one-row frame of line 135
    prediction      \* model.predict(input_data)[0], or NoPrediction

uiVars == <<sim_pressure, sim_mileage, sim_temp, status, business_metrics>>
simLocals == <<steps, pressure_start, temp_start, mileage_start,
               pressure_wear, temp_change, data>>
simVars == <<rng, simLocals, df_sim, sim_cache, sim_runs>>

dashVars == <<np_rng, df, dash_cache, dash_runs>>

predVars == <<strict_names, model, accuracy, model_cache, sim_vibration,
              input_data, prediction>>

vars == <<pc, uiVars, simVars, dashVars, predVars>>

----------------------------------------------------------------------------
(* Constants of app.py, lines 17-32, in the units of the sliders.          *)

WEAR_THRESHOLD_PRESSURE == 280
OVERPRESSURE_THRESHOLD == 380
OPTIMAL_PRESSURE_RANGE == <<300, 350>>
PRESSURE_ALERT_THRESHOLD == 290
OVERPRESSURE_ALERT == 360

HIGH_MILEAGE_THRESHOLD == 40000
MILEAGE_ALERT_THRESHOLD == 35000

CRITICAL_TEMP_THRESHOLD == 850
TEMP_ALERT_THRESHOLD == 750
OPTIMAL_TEMP_RANGE == <<450, 700>>

----------------------------------------------------------------------------
(* Helpers.                                                                *)

Abs(x) == IF x < 0 THEN -x ELSE x

Min(a, b) == IF a < b THEN a ELSE b
Max(a, b) == IF a > b THEN a ELSE b

\* Python's round(x, ndigits) for x >= 0: the nearest multiple of `unit`,
\* a tie going to the even multiple.
round(x, unit) ==
    LET q == x \div unit
        r == x % unit
    IN  IF 2 * r < unit THEN q * unit
        ELSE IF 2 * r > unit THEN (q + 1) * unit
        ELSE IF q % 2 = 0 THEN q * unit
        ELSE (q + 1) * unit

\* Python's `x in lst` on a list: equality with one of the elements.
InList(x, lst) == \E k \in 1..Len(lst) : lst[k] = x

----------------------------------------------------------------------------
(* predict_wear_and_status, app.py lines 40-82.                            *)

\* Variant of PressureAnalysis: the over-inflation alert compared with >=.
PressureAnalysis_AlertInclusive(pressure) ==
    IF pressure < WEAR_THRESHOLD_PRESSURE
    THEN [risk |-> 3, issues |-> <<"CRITICAL UNDER-INFLATION">>]
    ELSE IF pressure > OVERPRESSURE_THRESHOLD
    THEN [risk |-> 3, issues |-> <<"CRITICAL OVER-INFLATION - BLOWOUT RISK">>]
    ELSE IF pressure < PRESSURE_ALERT_THRESHOLD
    THEN [risk |-> 2, issues |-> <<>>]
    ELSE IF pressure >= OVERPRESSURE_ALERT
    THEN [risk |-> 2, issues |-> <<>>]
    ELSE [risk |-> 0, issues |-> <<>>]

\* Variant of PressureAnalysis: the under-inflation alert tested first, so
\* that the critical under-inflation branch is never taken.
PressureAnalysis_AlertFirst(pressure) ==
    IF pressure < PRESSURE_ALERT_THRESHOLD
    THEN [risk |-> 2, issues |-> <<>>]
    ELSE IF pressure > OVERPRESSURE_THRESHOLD
    THEN [risk |-> 3, issues |-> <<"CRITICAL OVER-INFLATION - BLOWOUT RISK">>]
    ELSE IF pressure < WEAR_THRESHOLD_PRESSURE
    THEN [risk |-> 3, issues |-> <<"CRITICAL UNDER-INFLATION">>]
    ELSE IF pressure > OVERPRESSURE_ALERT
    THEN [risk |-> 2, issues |-> <<>>]
    ELSE [risk |-> 0, issues |-> <<>>]

\* The PRESSURE ANALYSIS chain: the points and the critical issues it adds.
PressureAnalysis(pressure) ==
    IF pressure < WEAR_THRESHOLD_PRESSURE
    THEN [risk |-> 3, issues |-> <<"CRITICAL UNDER-INFLATION">>]
    ELSE IF pressure > OVERPRESSURE_THRESHOLD
    THEN [risk |-> 3, issues |-> <<"CRITICAL OVER-INFLATION - BLOWOUT RISK">>]
    ELSE IF pressure < PRESSURE_ALERT_THRESHOLD
    THEN [risk |-> 2, issues |-> <<>>]
    ELSE IF pressure > OVERPRESSURE_ALERT
    THEN [risk |-> 2, issues |-> <<>>]
    ELSE [risk |-> 0, issues |-> <<>>]

\* Variant of MileageAnalysis: both thresholds compared with >=.
MileageAnalysis_Inclusive(mileage) ==
    IF mileage >= HIGH_MILEAGE_THRESHOLD
    THEN [risk |-> 2, issues |-> <<"END OF SERVICE LIFE">>]
    ELSE IF mileage >= MILEAGE_ALERT_THRESHOLD
    THEN [risk |-> 1, issues |-> <<>>]
    ELSE [risk |-> 0, issues |-> <<>>]

\* Variant of MileageAnalysis: high mileage scores its points but is not
\* recorded as a critical issue.
MileageAnalysis_NoIssue(mileage) ==
    IF mileage > HIGH_MILEAGE_THRESHOLD
    THEN [risk |-> 2, issues |-> <<>>]
    ELSE IF mileage > MILEAGE_ALERT_THRESHOLD
    THEN [risk |-> 1, issues |-> <<>>]
    ELSE [risk |-> 0, issues |-> <<>>]

\* The MILEAGE ANALYSIS chain.
MileageAnalysis(mileage) ==
    IF mileage > HIGH_MILEAGE_THRESHOLD
    THEN [risk |-> 2, issues |-> <<"END OF SERVICE LIFE">>]
    ELSE IF mileage > MILEAGE_ALERT_THRESHOLD
    THEN [risk |-> 1, issues |-> <<>>]
    ELSE [risk |-> 0, issues |-> <<>>]

\* Variant of TemperatureAnalysis: the alert taken against the lower end of
\* the optimal range instead of TEMP_ALERT_THRESHOLD.
TemperatureAnalysis_OptimalAsAlert(temp) ==
    IF temp > CRITICAL_TEMP_THRESHOLD
    THEN [risk |-> 3, issues |-> <<"CRITICAL TEMPERATURE - RUBBER DEGRADATION">>]
    ELSE IF temp > OPTIMAL_TEMP_RANGE[1]
    THEN [risk |-> 2, issues |-> <<>>]
    ELSE [risk |-> 0, issues |-> <<>>]

\* The TEMPERATURE ANALYSIS chain.
TemperatureAnalysis(temp) ==
    IF temp > CRITICAL_TEMP_THRESHOLD
    THEN [risk |-> 3, issues |-> <<"CRITICAL TEMPERATURE - RUBBER DEGRADATION">>]
    ELSE IF temp > TEMP_ALERT_THRESHOLD
    THEN [risk |-> 2, issues |-> <<>>]
    ELSE [risk |-> 0, issues |-> <<>>]

\* Variant of RiskAssessment: the emptiness test of critical_issues inverted
\* and joined with "and".
RiskAssessment_NoIssues(risk_factors, critical_issues) ==
    IF risk_factors >= 6 /\ critical_issues = <<>>
    THEN IF InList("BLOWOUT RISK", critical_issues)
            \/ InList("RUBBER DEGRADATION", critical_issues)
         THEN <<"CRITICAL: IMMINENT FAILURE RISK", "red", "stop_sign">>
         ELSE <<"CRITICAL: MULTIPLE FAILURE FACTORS", "red", "siren">>
    ELSE IF risk_factors >= 4
    THEN <<"HIGH RISK: MAINTENANCE REQUIRED", "orange", "warning_sign">>
    ELSE IF risk_factors >= 2
    THEN <<"WARNING: ELEVATED RISK", "yellow", "orange_diamond">>
    ELSE <<"NORMAL OPERATING STATE", "green", "check_mark">>

\* The multi-factor assessment: the returned (text, colour, icon).
RiskAssessment(risk_factors, critical_issues) ==
    IF risk_factors >= 6 \/ critical_issues # <<>>
    THEN IF InList("BLOWOUT RISK", critical_issues)
            \/ InList("RUBBER DEGRADATION", critical_issues)
         THEN <<"CRITICAL: IMMINENT FAILURE RISK", "red", "stop_sign">>
         ELSE <<"CRITICAL: MULTIPLE FAILURE FACTORS", "red", "siren">>
    ELSE IF risk_factors >= 4
    THEN <<"HIGH RISK: MAINTENANCE REQUIRED", "orange", "warning_sign">>
    ELSE IF risk_factors >= 2
    THEN <<"WARNING: ELEVATED RISK", "yellow", "orange_diamond">>
    ELSE <<"NORMAL OPERATING STATE", "green", "check_mark">>

\* Variant of predict_wear_and_status: the dimensions short-circuit, the
\* worst single dimension deciding the points instead of their sum.
predict_wear_and_status_ShortCircuit(pressure, mileage, temp) ==
    LET pa == PressureAnalysis(pressure)
        ma == MileageAnalysis(mileage)
        ta == TemperatureAnalysis(temp)
        worst == IF pa.risk >= ma.risk /\ pa.risk >= ta.risk THEN pa.risk
                 ELSE IF ma.risk >= ta.risk THEN ma.risk
                 ELSE ta.risk
        critical_issues == pa.issues \o ma.issues \o ta.issues
    IN  RiskAssessment(worst, critical_issues)

predict_wear_and_status(pressure, mileage, temp) ==
    LET pa == PressureAnalysis(pressure)
        ma == MileageAnalysis(mileage)
        ta == TemperatureAnalysis(temp)
        risk_factors == pa.risk + ma.risk + ta.risk
        critical_issues == pa.issues \o ma.issues \o ta.issues
    IN  RiskAssessment(risk_factors, critical_issues)

----------------------------------------------------------------------------
(* calculate_business_metrics, app.py lines 84-133.  Fuel efficiency is in  *)
(* 1/100 of a percent, uptime in 1/100 of a percent, savings in dollars.    *)

\* round(x, 1) of a value in 1/100: to the nearest 1/10, also below zero.
round1(x) == IF x < 0 THEN -round(-x, 10) ELSE round(x, 10)

\* The values random.randint(a, b) is followed on: the ends and the middle.
randint(a, b) == {a, (a + b) \div 2, b}

\* Lines 87-103: the fuel efficiency impact before rounding.
FuelEfficiencyImpact(pressure, temp) ==
    LET over_pressure == pressure - OPTIMAL_PRESSURE_RANGE[2]
        by_pressure ==
            IF pressure < OPTIMAL_PRESSURE_RANGE[1]
            THEN -((OPTIMAL_PRESSURE_RANGE[1] - pressure) * 5)
            ELSE IF pressure > OPTIMAL_PRESSURE_RANGE[2]
            THEN IF over_pressure <= 30
                 THEN Min(200, over_pressure * 7)
                 ELSE 200 - ((over_pressure - 30) * 15)
            ELSE 0
        by_temp ==
            IF temp > OPTIMAL_TEMP_RANGE[2]
            THEN -((temp - OPTIMAL_TEMP_RANGE[2]) * 2)
            ELSE 0
    IN  by_pressure + by_temp

\* Lines 105-121: savings, the interval of the risk score and uptime by colour.
SeverityMetrics(status_color) ==
    IF status_color = "green"
    THEN [maintenance_savings |-> 1800, risk |-> <<15, 25>>, uptime |-> 9820]
    ELSE IF status_color = "yellow"
    THEN [maintenance_savings |-> 2400, risk |-> <<35, 50>>, uptime |-> 9650]
    ELSE IF status_color = "orange"
    THEN [maintenance_savings |-> 3600, risk |-> <<60, 75>>, uptime |-> 9400]
    ELSE [maintenance_savings |-> 4800, risk |-> <<85, 98>>, uptime |-> 8900]

\* Lines 84-133 with the value risk_score that random.randint returned.
calculate_business_metrics(pressure, mileage, temp, status_color, risk_score) ==
    LET by_color == SeverityMetrics(status_color)
        high_mileage == mileage > HIGH_MILEAGE_THRESHOLD
    IN  [uptime |-> round1(IF high_mileage THEN by_color.uptime - 200
                           ELSE by_color.uptime),
         fuel_efficiency |-> round1(FuelEfficiencyImpact(pressure, temp)),
         maintenance_savings |-> IF high_mileage
                                 THEN by_color.maintenance_savings + 800
                                 ELSE by_color.maintenance_savings,
         risk_score |-> risk_score]

----------------------------------------------------------------------------
(* The I/O simulator of app.py, lines 314-337: three sliders, then the     *)
(* status and the business metrics of the reading they hold.              *)

\* How many slider ticks around each threshold the checked readings cover.
Near == 2

DefaultReading == [pressure |-> 322, mileage |-> 18500, temp |-> 525]

\* st.slider("Pressure (PSI)", 25.0, 40.0, 32.2, 0.1): every tick.
PressureSlider == 250..400

\* st.slider("Mileage (km)", 0, 50000, 18500, 500): the ends, the default
\* 45000 km and the ticks within Near ticks of a mileage threshold.
MileageSlider ==
    {m \in {500 * k : k \in 0..100} :
        \/ m \in {0, 45000, 50000, DefaultReading.mileage}
        \/ \E th \in {MILEAGE_ALERT_THRESHOLD, HIGH_MILEAGE_THRESHOLD} :
              Abs(m - th) <= Near * 500}

\* st.slider("Temperature (C)", 30.0, 90.0, 52.5, 0.5): the ends, the
\* default and the ticks within Near ticks of a temperature threshold.
TempSlider ==
    {t \in {300 + 5 * k : k \in 0..120} :
        \/ t \in {300, 900, DefaultReading.temp}
        \/ \E th \in {OPTIMAL_TEMP_RANGE[1], OPTIMAL_TEMP_RANGE[2],
                      TEMP_ALERT_THRESHOLD, CRITICAL_TEMP_THRESHOLD} :
              Abs(t - th) <= Near * 5}

NoStatus == <<"", "", "">>

NoMetrics == <<>>

\* The generator is not running while the sliders are evaluated.
SimIdle ==
    /\ rng = [site \in {} |-> 0]
    /\ steps = 0
    /\ pressure_start = 0
    /\ temp_start = 0
    /\ mileage_start = 0
    /\ pressure_wear = 0
    /\ temp_change = 0
    /\ data = <<>>
    /\ df_sim = <<>>
    /\ sim_cache = <<>>
    /\ sim_runs = 0

\* The dashboard page has not been opened.
DashIdle ==
    /\ np_rng = 0
    /\ df = <<>>
    /\ dash_cache = <<>>
    /\ dash_runs = 0

NoModel == <<>>

NoPrediction == ""

\* Nothing of the dashboard page's model and prediction exists.
PredIdle ==
    /\ strict_names = FALSE
    /\ model = NoModel
    /\ accuracy = 0
    /\ model_cache = NoModel
    /\ sim_vibration = 0
    /\ input_data = <<>>
    /\ prediction = NoPrediction

Init ==
    /\ pc = "sliders"
    /\ sim_pressure \in PressureSlider
    /\ sim_mileage \in MileageSlider
    /\ sim_temp \in TempSlider
    /\ status = NoStatus
    /\ business_metrics = NoMetrics
    /\ SimIdle
    /\ DashIdle
    /\ PredIdle

\* Line 336: status_text, status_color, status_icon = predict_wear_and_status(...)
PredictStatus ==
    /\ pc = "sliders"
    /\ status' = predict_wear_and_status(sim_pressure, sim_mileage, sim_temp)
    /\ pc' = "status"
    /\ UNCHANGED <<sim_pressure, sim_mileage, sim_temp, business_metrics,
                   simVars, dashVars, predVars>>

\* Line 337: business_metrics = calculate_business_metrics(...)
CalculateMetrics ==
    /\ pc = "status"
    /\ \E risk_score \in randint(SeverityMetrics(status[2]).risk[1],
                                  SeverityMetrics(status[2]).risk[2]) :
          business_metrics' = calculate_business_metrics(
              sim_pressure, sim_mileage, sim_temp, status[2], risk_score)
    /\ pc' = "metrics"
    /\ UNCHANGED <<sim_pressure, sim_mileage, sim_temp, status,
                   simVars, dashVars, predVars>>

Next ==
    \/ PredictStatus
    \/ CalculateMetrics

Spec == Init /\ [][Next]_vars

----------------------------------------------------------------------------
(* Properties of the classifier, checked under Spec.                       *)

Normal == <<"NORMAL OPERATING STATE", "green", "check_mark">>

\* The labels that start with the word CRITICAL.
CriticalLabels ==
    {"CRITICAL: IMMINENT FAILURE RISK", "CRITICAL: MULTIPLE FAILURE FACTORS"}

\* green < yellow < orange < red
Severity(color) ==
    CASE color = "green" -> 0
      [] color = "yellow" -> 1
      [] color = "orange" -> 2
      [] color = "red" -> 3

Classified == pc \in {"status", "metrics"}

\* C1 as stated: every reading with pressure >= 30.0 PSI, temperature
\* <= 70.0 C and mileage < 35000 km is classified normal.
C1_NormalAtOrAboveOptimal ==
    ( /\ Classified
      /\ sim_pressure >= OPTIMAL_PRESSURE_RANGE[1]
      /\ sim_temp <= OPTIMAL_TEMP_RANGE[2]
      /\ sim_mileage < MILEAGE_ALERT_THRESHOLD ) => status = Normal

\* C1 amended: every reading with 30.0 <= pressure <= 36.0 PSI, temperature
\* <= 70.0 C and mileage < 35000 km is classified normal (green, check mark).
C1_NormalUpToOverpressureAlert ==
    ( /\ Classified
      /\ sim_pressure >= OPTIMAL_PRESSURE_RANGE[1]
      /\ sim_pressure <= OVERPRESSURE_ALERT
      /\ sim_temp <= OPTIMAL_TEMP_RANGE[2]
      /\ sim_mileage < MILEAGE_ALERT_THRESHOLD ) => status = Normal

C1_Witness ==
    /\ Classified
    /\ sim_pressure = OVERPRESSURE_ALERT
    /\ sim_temp = OPTIMAL_TEMP_RANGE[2]
    /\ sim_mileage = MILEAGE_ALERT_THRESHOLD - 500
    /\ status = Normal

\* C2: for a classified reading with pressure p1 < 28.0 PSI, every higher
\* slider pressure p2 with the same mileage and temperature has a severity
\* that is at most the severity of the reading.
C2_MonotoneBelowCritical ==
    (Classified /\ sim_pressure < WEAR_THRESHOLD_PRESSURE) =>
        \A p2 \in PressureSlider :
            sim_pressure < p2 =>
                Severity(status[2]) >=
                    Severity(predict_wear_and_status(p2, sim_mileage, sim_temp)[2])

C2_Witness ==
    /\ Classified
    /\ sim_pressure = WEAR_THRESHOLD_PRESSURE - 1
    /\ sim_mileage = 0
    /\ sim_temp = 300
    /\ Severity(status[2]) = 3
    /\ \E p2 \in PressureSlider :
          /\ p2 > OVERPRESSURE_THRESHOLD
          /\ Severity(predict_wear_and_status(p2, sim_mileage, sim_temp)[2]) = 3
    /\ \E p2 \in PressureSlider :
          /\ sim_pressure < p2
          /\ Severity(predict_wear_and_status(p2, sim_mileage, sim_temp)[2]) = 0

\* C3: a reading with pressure < 28.0 or > 38.0 PSI, mileage > 40000 km and
\* temperature > 85.0 C gets a label that starts with CRITICAL and the colour
\* red; (25.0, 45000, 90.0) is such a reading.
C3_AllThreeCritical ==
    ( /\ Classified
      /\ \/ sim_pressure < WEAR_THRESHOLD_PRESSURE
         \/ sim_pressure > OVERPRESSURE_THRESHOLD
      /\ sim_mileage > HIGH_MILEAGE_THRESHOLD
      /\ sim_temp > CRITICAL_TEMP_THRESHOLD )
    => (status[1] \in CriticalLabels /\ status[2] = "red")

C3_Witness ==
    /\ Classified
    /\ sim_pressure = 250
    /\ sim_mileage = 45000
    /\ sim_temp = 900
    /\ status[1] \in CriticalLabels
    /\ status[2] = "red"

\* C4: the default reading (32.2 PSI, 18500 km, 52.5 C) scores no risk point,
\* raises no critical issue and is classified NORMAL OPERATING STATE, green.
C4_DefaultIsNormal ==
    ( /\ Classified
      /\ sim_pressure = DefaultReading.pressure
      /\ sim_mileage = DefaultReading.mileage
      /\ sim_temp = DefaultReading.temp )
    => /\ status[1] = "NORMAL OPERATING STATE"
       /\ status[2] = "green"
       /\ PressureAnalysis(sim_pressure).risk + MileageAnalysis(sim_mileage).risk
            + TemperatureAnalysis(sim_temp).risk = 0
       /\ PressureAnalysis(sim_pressure).issues \o MileageAnalysis(sim_mileage).issues
            \o TemperatureAnalysis(sim_temp).issues = <<>>

C4_Witness ==
    /\ Classified
    /\ sim_pressure = 322
    /\ sim_mileage = 18500
    /\ sim_temp = 525
    /\ status = Normal

\* C10: a reading exactly on a threshold does not cross it: pressure 28.0 and
\* 38.0 score 2 without a critical issue, 29.0 and 36.0 score 0; mileage
\* 40000 scores 1 without a critical issue, 35000 scores 0; temperature 85.0
\* scores 2 without a critical issue, 75.0 scores 0; and a reading with every
\* input on its critical threshold is not classified red.
C10_StrictBoundaries ==
    Classified =>
        /\ sim_pressure \in {WEAR_THRESHOLD_PRESSURE, OVERPRESSURE_THRESHOLD}
              => PressureAnalysis(sim_pressure) = [risk |-> 2, issues |-> <<>>]
        /\ sim_pressure \in {PRESSURE_ALERT_THRESHOLD, OVERPRESSURE_ALERT}
              => PressureAnalysis(sim_pressure) = [risk |-> 0, issues |-> <<>>]
        /\ sim_mileage = HIGH_MILEAGE_THRESHOLD
              => MileageAnalysis(sim_mileage) = [risk |-> 1, issues |-> <<>>]
        /\ sim_mileage = MILEAGE_ALERT_THRESHOLD
              => MileageAnalysis(sim_mileage) = [risk |-> 0, issues |-> <<>>]
        /\ sim_temp = CRITICAL_TEMP_THRESHOLD
              => TemperatureAnalysis(sim_temp) = [risk |-> 2, issues |-> <<>>]
        /\ sim_temp = TEMP_ALERT_THRESHOLD
              => TemperatureAnalysis(sim_temp) = [risk |-> 0, issues |-> <<>>]
        /\ ( /\ sim_pressure \in {WEAR_THRESHOLD_PRESSURE, OVERPRESSURE_THRESHOLD}
             /\ sim_mileage = HIGH_MILEAGE_THRESHOLD
             /\ sim_temp = CRITICAL_TEMP_THRESHOLD ) => status[2] # "red"

C10_Witness ==
    /\ Classified
    /\ sim_pressure = WEAR_THRESHOLD_PRESSURE
    /\ sim_mileage = HIGH_MILEAGE_THRESHOLD
    /\ sim_temp = CRITICAL_TEMP_THRESHOLD
    /\ status[2] = "orange"

\* The claims' reading of the thresholds, written out on the slider values.
PressureCritical ==
    sim_pressure < WEAR_THRESHOLD_PRESSURE \/ sim_pressure > OVERPRESSURE_THRESHOLD
PressureAlert ==
    /\ ~PressureCritical
    /\ sim_pressure < PRESSURE_ALERT_THRESHOLD \/ sim_pressure > OVERPRESSURE_ALERT
MileageCritical == sim_mileage > HIGH_MILEAGE_THRESHOLD
MileageAlert == ~MileageCritical /\ sim_mileage > MILEAGE_ALERT_THRESHOLD
TempCritical == sim_temp > CRITICAL_TEMP_THRESHOLD
TempAlert == ~TempCritical /\ sim_temp > TEMP_ALERT_THRESHOLD
AnyCritical == PressureCritical \/ MileageCritical \/ TempCritical

\* Pressure alert 2, mileage alert 1, temperature alert 2.
AlertPoints ==
    (IF PressureAlert THEN 2 ELSE 0) + (IF MileageAlert THEN 1 ELSE 0)
        + (IF TempAlert THEN 2 ELSE 0)

\* C11: without a critical condition the severity is decided by the sum of
\* the alert points: 0 or 1 green NORMAL OPERATING STATE, 2 or 3 yellow
\* WARNING: ELEVATED RISK, 4 or 5 orange HIGH RISK: MAINTENANCE REQUIRED.
C11_PointsAccumulate ==
    (Classified /\ ~AnyCritical) =>
        /\ AlertPoints \in 0..5
        /\ AlertPoints \in {0, 1} =>
              (status[1] = "NORMAL OPERATING STATE" /\ status[2] = "green")
        /\ AlertPoints \in {2, 3} =>
              (status[1] = "WARNING: ELEVATED RISK" /\ status[2] = "yellow")
        /\ AlertPoints \in {4, 5} =>
              (status[1] = "HIGH RISK: MAINTENANCE REQUIRED" /\ status[2] = "orange")

\* A pressure alert together with a temperature alert, each of which alone
\* is yellow: orange.
C11_Witness ==
    /\ Classified
    /\ PressureAlert /\ TempAlert /\ ~MileageAlert /\ ~AnyCritical
    /\ status[2] = "orange"
    /\ predict_wear_and_status(sim_pressure, sim_mileage, 300)[2] = "yellow"
    /\ predict_wear_and_status(322, sim_mileage, sim_temp)[2] = "yellow"
    /\ predict_wear_and_status(322, 35500, 300)[2] = "green"

\* C12: a red outcome whose critical issues include critical over-inflation
\* or critical temperature is (CRITICAL: IMMINENT FAILURE RISK, red, stop
\* sign); every other red outcome is (CRITICAL: MULTIPLE FAILURE FACTORS, red,
\* siren).
C12_ImminentOnBlowoutOrDegradation ==
    (Classified /\ status[2] = "red") =>
        IF sim_pressure > OVERPRESSURE_THRESHOLD \/ sim_temp > CRITICAL_TEMP_THRESHOLD
        THEN status = <<"CRITICAL: IMMINENT FAILURE RISK", "red", "stop_sign">>
        ELSE status = <<"CRITICAL: MULTIPLE FAILURE FACTORS", "red", "siren">>

\* C14: the colour is red exactly when a single critical condition holds;
\* without one the points stay below 6; a reading whose only violation is
\* mileage above 40000 km is CRITICAL.
C14_RedIffCritical ==
    Classified =>
        /\ status[2] = "red" <=> AnyCritical
        /\ ~AnyCritical =>
              PressureAnalysis(sim_pressure).risk + MileageAnalysis(sim_mileage).risk
                 + TemperatureAnalysis(sim_temp).risk <= 5
        /\ (MileageCritical /\ ~PressureCritical /\ ~PressureAlert
                /\ ~TempCritical /\ ~TempAlert) =>
              (status[1] \in CriticalLabels /\ status[2] = "red")

\* Mileage above 40000 km and nothing else out of range.
C14_Witness ==
    /\ Classified
    /\ sim_pressure = DefaultReading.pressure
    /\ sim_temp = DefaultReading.temp
    /\ sim_mileage = HIGH_MILEAGE_THRESHOLD + 500
    /\ status[1] \in CriticalLabels
    /\ status[2] = "red"

\* C13: for every slider reading, with status_color taken from
\* predict_wear_and_status on the same reading, the maintenance_savings of
\* calculate_business_metrics lies within the advertised 1800..4800 dollars.
C13_SavingsWithinAdvertisedRange ==
    pc = "metrics" =>
        /\ 1800 <= business_metrics.maintenance_savings
        /\ business_metrics.maintenance_savings <= 4800

----------------------------------------------------------------------------
(* Python's module-level random generator (app.py line 7, never seeded by  *)
(* the program, so its state at import is arbitrary).  Its hidden state is  *)
(* one small stream per call site of random.uniform: k selects the stream   *)
(* and n is the position in it.  Stream 0 always yields the lower end of    *)
(* the interval, stream 1 the upper end, stream k >= 2 walks through lower  *)
(* end, middle and upper end in steps of k - 1.                            *)

\* Number of streams a call site can be on.
NumPatterns == 3

Sites == {"wear", "temp", "lowp", "old", "dist"}

RngStates == [Sites -> [k : 0..(NumPatterns - 1), n : {0}]]

\* random.random() read as the number of halves: 0, 1 or 2.
Level(g) ==
    IF g.k = 0 THEN 0
    ELSE IF g.k = 1 THEN 2
    ELSE ((g.k - 1) * g.n) % 3

\* random.uniform(a, b) == a + (b - a) * random()
uniform(a, b, g) == a + ((b - a) * Level(g)) \div 2

\* The generator after the call sites in `used` have each drawn once.
Advance(r, used) ==
    [site \in Sites |->
        IF site \in used THEN [r[site] EXCEPT !.n = (@ + 1) % 3] ELSE r[site]]

----------------------------------------------------------------------------
(* generate_simulation_data, app.py lines 135-171.                         *)

\* A slider-unit pressure (tenths of a PSI) in the unit of pressure_start.
RunPressure(tenths) == tenths * 1000

\* A slider-unit temperature (tenths of a degree) in the unit of temp_start.
RunTemp(tenths) == tenths * 10

\* for i in range(150)
SIMULATION_STEPS == 150

\* Variant of InitialData: the series seeded with the start reading.
InitialData_WithStart == <<<<0, 335000, 5500>>>>

\* Line 138: data = []
InitialData == <<>>

\* Variant of AmplifiedWear: the loss amplified whatever the mileage.
AmplifiedWear_Always(draw, mileage) == (draw * 13) \div 10

\* Lines 146-148: the pressure loss of a step, amplified after 25000 km.
AmplifiedWear(draw, mileage) ==
    IF mileage > 25000 THEN (draw * 13) \div 10 ELSE draw

\* Variant of ClampTemp: the upper clamp above the stop temperature.
ClampTemp_WideUpper(t) == Max(3000, Min(9500, t))

\* Variant of ClampTemp: only the lower clamp.
ClampTemp_NoUpper(t) == Max(3000, t)

\* Line 157: max(30, min(90, t))
ClampTemp(t) == Max(3000, Min(9000, t))

\* Variant of StopSimulation: the margin added to the pressure threshold
\* subtracted twice.
StopSimulation_WrongMargin(p, t) ==
    \/ p < RunPressure(WEAR_THRESHOLD_PRESSURE - 40)
    \/ t > RunTemp(CRITICAL_TEMP_THRESHOLD + 50)

\* Line 165: pressure critically low or temperature critically high.
StopSimulation(p, t) ==
    \/ p < RunPressure(WEAR_THRESHOLD_PRESSURE - 20)
    \/ t > RunTemp(CRITICAL_TEMP_THRESHOLD + 50)

\* Line 162: the reading appended for a step.
Reading(m, p, t) == <<m, round(p, 100), round(t, 10)>>

\* Line 168: pd.DataFrame(data, columns=[...]); the degree sign of the third
\* column name is written "deg".
SimFrame(rows) ==
    [columns |-> <<"Mileage (km)", "Pressure (PSI)", "Temperature (deg C)">>,
     rows |-> rows]

NoFrame == <<>>

\* The process starts with an arbitrary generator state and nothing cached.
InitSim ==
    /\ pc = "sim_call"
    /\ sim_pressure = DefaultReading.pressure
    /\ sim_mileage = DefaultReading.mileage
    /\ sim_temp = DefaultReading.temp
    /\ status = NoStatus
    /\ business_metrics = NoMetrics
    /\ rng \in RngStates
    /\ steps = 0
    /\ pressure_start = 0
    /\ temp_start = 0
    /\ mileage_start = 0
    /\ pressure_wear = 0
    /\ temp_change = 0
    /\ data = <<>>
    /\ df_sim = NoFrame
    /\ sim_cache = NoFrame
    /\ sim_runs = 0
    /\ DashIdle
    /\ PredIdle

\* Line 171 with a cached value: st.cache_data returns it, the body is not run.
SimCacheHit ==
    /\ pc = "sim_call"
    /\ sim_cache # NoFrame
    /\ df_sim' = sim_cache
    /\ pc' = "sim_done"
    /\ UNCHANGED <<predVars, uiVars, dashVars, rng, simLocals, sim_cache, sim_runs>>

\* Line 171 without a cached value: the body starts, lines 138-141.
SimCall ==
    /\ pc = "sim_call"
    /\ sim_cache = NoFrame
    /\ data' = InitialData
    /\ pressure_start' = 335000
    /\ temp_start' = 5500
    /\ mileage_start' = 0
    /\ steps' = 0
    /\ pressure_wear' = 0
    /\ temp_change' = 0
    /\ pc' = "sim_loop"
    /\ UNCHANGED <<predVars, uiVars, dashVars, rng, df_sim, sim_cache, sim_runs>>

\* One iteration of the for-loop, lines 144-166.
SimStep ==
    /\ pc = "sim_loop"
    /\ LET wear == AmplifiedWear(uniform(800, 2500, rng["wear"]), mileage_start)
           p == pressure_start - wear
           low == p < 300000
           old == mileage_start > 30000
           change == uniform(-200, 400, rng["temp"])
                        + (IF low THEN uniform(100, 300, rng["lowp"]) ELSE 0)
                        + (IF old THEN uniform(50, 200, rng["old"]) ELSE 0)
           t == ClampTemp(temp_start + change)
           m == mileage_start + uniform(250, 600, rng["dist"])
       IN  /\ pressure_wear' = wear
           /\ pressure_start' = p
           /\ temp_change' = change
           /\ temp_start' = t
           /\ mileage_start' = m
           /\ data' = Append(data, Reading(m, p, t))
           /\ rng' = Advance(rng, {"wear", "temp", "dist"}
                                    \cup (IF low THEN {"lowp"} ELSE {})
                                    \cup (IF old THEN {"old"} ELSE {}))
           /\ steps' = steps + 1
           /\ pc' = IF StopSimulation(p, t) \/ steps + 1 = SIMULATION_STEPS
                    THEN "sim_return" ELSE "sim_loop"
    /\ UNCHANGED <<predVars, uiVars, dashVars, df_sim, sim_cache, sim_runs>>

\* Lines 168-171: the frame is built, cached and bound to df_sim.
SimReturn ==
    /\ pc = "sim_return"
    /\ df_sim' = SimFrame(data)
    /\ sim_cache' = SimFrame(data)
    /\ sim_runs' = sim_runs + 1
    /\ pc' = "sim_done"
    /\ UNCHANGED <<predVars, uiVars, dashVars, rng, simLocals>>

\* Executions of a cached function a run of the model follows.
MaxRuns == 2

\* The script is run again (a widget changed, a new session).
SimRerun ==
    /\ pc = "sim_done"
    /\ sim_cache # NoFrame
    /\ pc' = "sim_call"
    /\ UNCHANGED <<predVars, uiVars, dashVars, simVars>>

\* The cache entry is dropped (cache cleared, entry evicted) and the script
\* is run again.
SimClearCache ==
    /\ pc = "sim_done"
    /\ sim_cache # NoFrame
    /\ sim_runs < MaxRuns
    /\ sim_cache' = NoFrame
    /\ pc' = "sim_call"
    /\ UNCHANGED <<predVars, uiVars, dashVars, rng, simLocals, df_sim, sim_runs>>

----------------------------------------------------------------------------
(* generate_data of the dashboard page, pages/1_Digital_Twin_Dashboard.py   *)
(* lines 60-94 and 114.  NumPy's global generator is a 32-state congruential *)
(* generator here; what it holds when the page is first run is arbitrary.   *)
(* Pressure, temperature and vibration are in tenths.                      *)

\* num_samples: 2000 in the code, this many rows in the model.
num_samples == 4

NpStates == 0..31

NpNext(s) == (5 * s + 3) % 32

\* The generator state after j draws from state s.
RECURSIVE NpStream(_, _)
NpStream(s, j) == IF j = 0 THEN s ELSE NpStream(NpNext(s), j - 1)

\* Variant of SeededState: the seed is not applied.
SeededState_Unseeded(seed, current) == current

\* np.random.seed(seed): the state is set from the seed alone.
SeededState(seed, current) == seed % 32

\* np.random.uniform(lo, hi) for the draw made in state s.
np_uniform(lo, hi, s) == lo + ((hi - lo) * s) \div 32

\* np.random.normal(mu, sigma) for the draw made in state s: mu - 4 sigma
\* to mu + 3.75 sigma in steps of a quarter of a sigma.
np_normal(mu, sigma, s) == mu + (sigma * (s - 16)) \div 4

\* Lines 70-85 for one sample: the rule-based failure injection.
InjectFailure(mileage, pressure, temperature, vibration) ==
    LET pressure_loss == pressure < 290 /\ mileage > 30000
        t1 == IF pressure_loss THEN (temperature * 11) \div 10 ELSE temperature
        v1 == IF pressure_loss THEN (vibration * 12) \div 10 ELSE vibration
        overheat == t1 > 750
        p2 == IF overheat THEN (pressure * 115) \div 100 ELSE pressure
        v2 == IF overheat THEN (v1 * 13) \div 10 ELSE v1
        impact == v2 > 300 /\ mileage > 40000
        t3 == IF impact THEN (t1 * 12) \div 10 ELSE t1
        failure_mode == IF impact THEN "Impact/Fatigue"
                        ELSE IF overheat THEN "Overheat"
                        ELSE IF pressure_loss THEN "Pressure Loss"
                        ELSE "Normal"
    IN  <<mileage, p2, t3, v2, failure_mode>>

\* Lines 65-68 and 87-93: the rows of the frame drawn from state s0.
DashRows(s0) ==
    [j \in 1..num_samples |->
        InjectFailure(
            np_uniform(5000, 80000, NpStream(s0, j)),
            np_normal(320, 20, NpStream(s0, num_samples + j)),
            np_normal(500, 100, NpStream(s0, 2 * num_samples + j)),
            np_normal(150, 50, NpStream(s0, 3 * num_samples + j)))]

DashFrame(rows) ==
    [columns |-> <<"Mileage (km)", "Pressure (PSI)", "Temperature (C)",
                   "Vibration (Hz)", "Failure Mode">>,
     rows |-> rows]

\* The dashboard page is opened for the first time in the process.
OpenDashboard ==
    /\ pc = "sim_done"
    /\ dash_runs = 0
    /\ np_rng' \in NpStates
    /\ pc' = "dash_call"
    /\ UNCHANGED <<predVars, uiVars, simVars, df, dash_cache, dash_runs>>

\* Line 114 with a cached value.
DashCacheHit ==
    /\ pc = "dash_call"
    /\ dash_cache # NoFrame
    /\ df' = dash_cache
    /\ pc' = "dash_done"
    /\ UNCHANGED <<predVars, uiVars, simVars, np_rng, dash_cache, dash_runs>>

\* Line 114 without a cached value: generate_data runs, lines 61-94.
GenerateData ==
    /\ pc = "dash_call"
    /\ dash_cache = NoFrame
    /\ LET s0 == SeededState(42, np_rng)
       IN  /\ df' = DashFrame(DashRows(s0))
           /\ dash_cache' = DashFrame(DashRows(s0))
           /\ np_rng' = NpStream(s0, 4 * num_samples)
    /\ dash_runs' = dash_runs + 1
    /\ pc' = "dash_done"
    /\ UNCHANGED <<predVars, uiVars, simVars>>

\* The dashboard script is run again.
DashRerun ==
    /\ pc = "dash_done"
    /\ dash_cache # NoFrame
    /\ pc' = "dash_call"
    /\ UNCHANGED <<predVars, uiVars, simVars, dashVars>>

\* The cache entry of generate_data is dropped and the script is run again.
DashClearCache ==
    /\ pc = "dash_done"
    /\ dash_cache # NoFrame
    /\ dash_runs < MaxRuns
    /\ dash_cache' = NoFrame
    /\ pc' = "dash_call"
    /\ UNCHANGED <<predVars, uiVars, simVars, np_rng, df, dash_runs>>

NextSim ==
    \/ SimCacheHit
    \/ SimCall
    \/ SimStep
    \/ SimReturn
    \/ SimRerun
    \/ SimClearCache
    \/ OpenDashboard
    \/ DashCacheHit
    \/ GenerateData
    \/ DashRerun
    \/ DashClearCache

SpecSim == InitSim /\ [][NextSim]_vars

----------------------------------------------------------------------------
(* The dashboard page from its first line to the prediction,                *)
(* pages/1_Digital_Twin_Dashboard.py lines 97-144.  The page names its      *)
(* slider values sim_mileage, sim_pressure and sim_temp as app.py does.     *)
(* The forest is its fitted attributes: the feature names it saw and the    *)
(* classes of its training labels; what it answers for a vector is one of   *)
(* its classes.                                                            *)

Range(seq) == {seq[i] : i \in 1..Len(seq)}

\* Line 99
features ==
    <<"Mileage (km)", "Pressure (PSI)", "Temperature (C)", "Vibration (Hz)">>

\* Line 100
target == "Failure Mode"

\* The position of a column in a frame.
ColumnIndex(frame, name) ==
    CHOOSE i \in 1..Len(frame.columns) : frame.columns[i] = name

\* train_test_split(test_size=0.2): the test split holds ceil(0.2 n) rows.
TestSize(n) == (2 * n + 9) \div 10

\* Line 105: the splits of n rows; which one random_state=42 selects is fixed
\* by the library and is any of them here.
TestSplits(n) == {rows \in SUBSET (1..n) : Cardinality(rows) = TestSize(n)}

\* Lines 107-108: the fitted forest for the training rows.
FittedModel(frame, test_rows) ==
    [feature_names_in_ |-> features,
     classes_ |-> {frame.rows[j][ColumnIndex(frame, target)] :
                      j \in (1..Len(frame.rows)) \ test_rows}]

\* Line 110: model.score on the test split, percent.
Scores(test_rows) ==
    {(correct * 100) \div Cardinality(test_rows) :
        correct \in 0..Cardinality(test_rows)}

\* st.sidebar.slider lines 129-132: the ends and the default of each slider.
DashMileageSlider == {5000, 50000, 80000}
DashPressureSlider == {200, 320, 450}
DashTempSlider == {200, 500, 1000}
DashVibrationSlider == {50, 150, 500}

\* Lines 135-140: the one-row frame of the slider values.
InputFrame(mileage, pressure, temp, vibration) ==
    [columns |-> <<"Mileage (km", "Pressure (PSI)", "Temperature (C)",
                   "Vibration (Hz)">>,
     rows |-> <<<<mileage, pressure, temp, vibration>>>>]

\* scikit-learn's check of a frame against the names seen during fit.
FeatureNamesMatch(fitted, frame) == frame.columns = fitted.feature_names_in_

\* The page is opened in a fresh process: nothing cached, NumPy's generator
\* and the installed scikit-learn arbitrary.
InitDash ==
    /\ pc = "dash_call"
    /\ sim_mileage = 50000
    /\ sim_pressure = 320
    /\ sim_temp = 500
    /\ status = NoStatus
    /\ business_metrics = NoMetrics
    /\ SimIdle
    /\ np_rng \in NpStates
    /\ df = NoFrame
    /\ dash_cache = NoFrame
    /\ dash_runs = 0
    /\ strict_names \in BOOLEAN
    /\ model = NoModel
    /\ accuracy = 0
    /\ model_cache = NoModel
    /\ sim_vibration = 150
    /\ input_data = NoFrame
    /\ prediction = NoPrediction

\* Line 115 with a cached value for this df: st.cache_resource returns it.
TrainCacheHit ==
    /\ pc = "dash_done"
    /\ model_cache # NoModel
    /\ model_cache.key = df
    /\ model' = model_cache.value[1]
    /\ accuracy' = model_cache.value[2]
    /\ pc' = "dash_trained"
    /\ UNCHANGED <<uiVars, simVars, dashVars, strict_names, model_cache,
                   sim_vibration, input_data, prediction>>

\* Line 115 without one: train_model runs, lines 98-111.
TrainModel ==
    /\ pc = "dash_done"
    /\ IF model_cache = NoModel THEN TRUE ELSE model_cache.key # df
    /\ Range(features) \cup {target} \subseteq Range(df.columns)
    /\ \E test_rows \in TestSplits(Len(df.rows)) :
       \E score \in Scores(test_rows) :
          /\ model' = FittedModel(df, test_rows)
          /\ accuracy' = score
          /\ model_cache' = [key |-> df,
                             value |-> <<FittedModel(df, test_rows), score>>]
    /\ pc' = "dash_trained"
    /\ UNCHANGED <<uiVars, simVars, dashVars, strict_names, sim_vibration,
                   input_data, prediction>>

\* Lines 129-132: the four sliders return their current values.
ReadSliders ==
    /\ pc = "dash_trained"
    /\ sim_mileage' \in DashMileageSlider
    /\ sim_pressure' \in DashPressureSlider
    /\ sim_temp' \in DashTempSlider
    /\ sim_vibration' \in DashVibrationSlider
    /\ pc' = "dash_sliders"
    /\ UNCHANGED <<status, business_metrics, simVars, dashVars, strict_names,
                   model, accuracy, model_cache, input_data, prediction>>

\* Lines 135-140: input_data = pd.DataFrame({...})
BuildInput ==
    /\ pc = "dash_sliders"
    /\ input_data' = InputFrame(sim_mileage, sim_pressure, sim_temp, sim_vibration)
    /\ pc' = "dash_input"
    /\ UNCHANGED <<uiVars, simVars, dashVars, strict_names, model, accuracy,
                   model_cache, sim_vibration, prediction>>

\* Lines 143-144: model.predict and model.predict_proba.  With names that
\* differ from the fitted ones a scikit-learn that rejects them raises
\* ValueError and the script ends there; one that does not takes the columns
\* by position.
Predict ==
    /\ pc = "dash_input"
    /\ IF FeatureNamesMatch(model, input_data) \/ ~strict_names
       THEN /\ prediction' \in model.classes_
            /\ pc' = "dash_predicted"
       ELSE /\ prediction' = NoPrediction
            /\ pc' = "dash_error"
    /\ UNCHANGED <<uiVars, simVars, dashVars, strict_names, model, accuracy,
                   model_cache, sim_vibration, input_data>>

\* A slider is moved: the script is run again from its first line.
PageRerun ==
    /\ pc \in {"dash_predicted", "dash_error"}
    /\ pc' = "dash_call"
    /\ UNCHANGED <<uiVars, simVars, dashVars, predVars>>

NextDash ==
    \/ DashCacheHit
    \/ GenerateData
    \/ TrainCacheHit
    \/ TrainModel
    \/ ReadSliders
    \/ BuildInput
    \/ Predict
    \/ PageRerun

SpecDash == InitDash /\ [][NextDash]_vars

----------------------------------------------------------------------------
(* Properties of generate_simulation_data, checked under SpecSim.          *)

\* The body of generate_simulation_data is being run or has just ended.
InBody == pc \in {"sim_loop", "sim_return"}

\* C5: one reading is appended per executed step, and the returned series
\* holds at least 1 and at most 150 readings.
C5_SeriesLength ==
    /\ InBody => (Len(data) = steps /\ steps <= 150)
    /\ pc = "sim_return" => (1 <= Len(data) /\ Len(data) <= 150)
    /\ df_sim # NoFrame => (1 <= Len(df_sim.rows) /\ Len(df_sim.rows) <= 150)

C5_Witness ==
    /\ pc = "sim_done"
    /\ steps = 94
    /\ Len(df_sim.rows) = 94
    /\ df_sim.rows = data

\* C6: once the running pressure is below 26.0 PSI or the running
\* temperature above 90.0 C the loop takes no further step; the reading of
\* that step is the last element of the series; and no earlier reading of the
\* series is below 26.0 PSI or above 90.0 C.
C6_EarlyTermination ==
    /\ pc = "sim_loop" => ~(pressure_start < 260000 \/ temp_start > 9000)
    /\ (pc = "sim_return" /\ (pressure_start < 260000 \/ temp_start > 9000)) =>
          /\ Len(data) >= 1
          /\ data[Len(data)] =
                <<mileage_start, round(pressure_start, 100), round(temp_start, 10)>>
    /\ InBody =>
          \A j \in 1..(Len(data) - 1) : ~(data[j][2] < 260000 \/ data[j][3] > 9000)

C6_Witness ==
    /\ pc = "sim_return"
    /\ steps < 150
    /\ pressure_start < 260000
    /\ Len(data) = steps
    /\ data[Len(data)][1] = mileage_start
    /\ data[Len(data)][2] = 260000
    /\ data[Len(data) - 1][2] >= 260000

\* C15: every run of generate_simulation_data ends because the running
\* pressure fell below 26.0 PSI, within at most 94 steps: neither the 150-step
\* cap nor a temperature above 90.0 C ends the loop.  The last reading of a
\* series has unrounded pressure below 26.0 PSI and every earlier reading has
\* pressure at or above 26.0 PSI.
C15_EndsOnLowPressure ==
    /\ InBody => steps <= 94
    /\ pc = "sim_loop" => pressure_start >= 260000
    /\ pc = "sim_return" =>
          /\ pressure_start < 260000
          /\ temp_start <= 9000
          /\ steps < SIMULATION_STEPS
          /\ data[Len(data)][2] = round(pressure_start, 100)
    /\ InBody => \A j \in 1..(Len(data) - 1) : data[j][2] >= 260000

\* The longest run: the smallest loss at every step, the temperature held at
\* the upper clamp, ended by the pressure at step 94.
C15_Witness ==
    /\ pc = "sim_return"
    /\ steps = 94
    /\ temp_start = 9000
    /\ pressure_start < 260000
    /\ data[93][2] >= 260000

\* C8: every temperature of the series lies in [30.0, 90.0] C.
C8_TemperatureClamped ==
    /\ \A j \in 1..Len(data) : 3000 <= data[j][3] /\ data[j][3] <= 9000
    /\ df_sim # NoFrame =>
          \A j \in 1..Len(df_sim.rows) :
              3000 <= df_sim.rows[j][3] /\ df_sim.rows[j][3] <= 9000

\* A step that added both upward biases to the largest drift while the
\* temperature already stood at the upper clamp.
C8_Witness ==
    /\ pc = "sim_loop"
    /\ Len(data) >= 2
    /\ pressure_start < 300000
    /\ mileage_start > 30600
    /\ temp_change = 900
    /\ data[Len(data) - 1][3] = 9000
    /\ data[Len(data)][3] = 9000

\* C9: every step lowers the running pressure by the draw in [0.08, 0.25] PSI,
\* multiplied by 1.3 exactly when the mileage before the step is above
\* 25000 km, and raises the mileage by a draw in [250, 600] km; after n steps
\* the mileage is in [250 n, 600 n] and the pressure in
\* [33.5 - 0.325 n, 33.5 - 0.08 n].
C9_WearAndMileage ==
    [][ steps' = steps + 1 =>
          LET loss == pressure_start - pressure_start'
              gain == mileage_start' - mileage_start
              draw == uniform(800, 2500, rng["wear"])
              n == steps'
          IN  /\ pressure_start' < pressure_start
              /\ 800 <= draw /\ draw <= 2500
              /\ mileage_start > 25000 =>
                    (10 * loss = 13 * draw /\ 1040 <= loss /\ loss <= 3250)
              /\ ~(mileage_start > 25000) => loss = draw
              /\ mileage_start' > mileage_start
              /\ 250 <= gain /\ gain <= 600
              /\ 250 * n <= mileage_start' /\ mileage_start' <= 600 * n
              /\ 335000 - 3250 * n <= pressure_start'
              /\ pressure_start' <= 335000 - 800 * n ]_vars

\* After a step whose loss was amplified.
C9_Witness ==
    /\ pc = "sim_loop"
    /\ steps > 0
    /\ mileage_start > 25600
    /\ pressure_wear = 2145

\* C7 as stated: a fresh execution of generate_simulation_data returns the
\* series the previous execution returned, and a fresh execution of
\* generate_data returns the frame the previous execution returned.
C7_BothGeneratorsDeterministic ==
    [][ /\ (pc = "sim_return" /\ df_sim # NoFrame) => df_sim' = df_sim
        /\ (pc = "dash_call" /\ dash_cache = NoFrame /\ df # NoFrame) => df' = df
      ]_vars

\* C7 amended: a fresh execution of generate_data returns the frame the
\* previous execution returned, whatever NumPy's generator held before.
C7_GenerateDataDeterministic ==
    [][ (pc = "dash_call" /\ dash_cache = NoFrame /\ df # NoFrame) => df' = df ]_vars

\* generate_data has been executed twice, the second time from another
\* generator state than the one the process started the page with.
C7_Witness ==
    /\ pc = "dash_done"
    /\ dash_runs = 2
    /\ df # NoFrame
    /\ df = dash_cache
    /\ Len(df.rows) = num_samples
    /\ \E j \in 1..num_samples : df.rows[j][5] # "Normal"

----------------------------------------------------------------------------
(* Properties of the dashboard page's prediction, checked under SpecDash.  *)

\* C16: the set of column names of the input_data frame passed to
\* model.predict and model.predict_proba equals the set of feature names the
\* model was trained on, and the prediction step is reached without an error
\* state.
C16_InputColumnsAreTrainedFeatures ==
    /\ pc \in {"dash_input", "dash_predicted", "dash_error"} =>
          Range(input_data.columns) = Range(model.feature_names_in_)
    /\ pc # "dash_error"

====
